---------------------------- MODULE Spec2Model ----------------------------
(***************************************************************************)
(* Model of main.py, the provisioning orchestrator of setup-ubuntu.        *)
(*                                                                         *)
(* One behaviour is one process started from main(): the task dispatcher   *)
(* reads the positional argument and runs either the full provisioning     *)
(* sequence (task "main") or one of the three single-purpose tasks.  Every *)
(* _check_call of the full run is one step; it appends the command to the  *)
(* log `issued` together with the exit status the child returned.  The     *)
(* environment (the argument vector, the configuration file, what is       *)
(* resolvable on PATH, the exit status of each child, the redirect target, *)
(* the platform, I/O failures) is chosen nondeterministically.             *)
(***************************************************************************)
EXTENDS Integers, Sequences, FiniteSets, TLC

VARIABLES
    argv,         \* the command line arguments after the script name
    pc,           \* position of the process in main()
    exit,         \* exit status of the process, meaningful when pc = "done"
    task,         \* the _Task selected by _parse_args
    config,       \* the mapping returned by _load_config
    env,          \* the mapping returned by _prepare_clean_env
    issued,       \* log of the _check_call invocations: args, env, status
    need_docker,  \* main(): need_docker
    need_mise,    \* main(): need_mise
    idx,          \* index of the running for loop of main()
    dockerOnPath, \* whether "docker" resolves on the clean PATH
    miseOnPath,   \* whether "mise" resolves on the clean PATH
    requests,     \* log of the urlopen calls of this process
    url,          \* response.url of the latest-release request
    uname,        \* platform.uname(): system and machine
    tag,          \* _install_mise: tag
    name,         \* _install_mise: name of the release asset
    tmpdir,       \* whether the TemporaryDirectory of _install_mise exists
    installed     \* destination files written by _install_mise

vars == <<argv, pc, exit, task, config, env, issued, need_docker, need_mise,
          idx, dockerOnPath, miseOnPath, requests, url, uname, tag, name,
          tmpdir, installed>>

runVars == <<config, env, issued, need_docker, need_mise, idx,
             dockerOnPath, miseOnPath>>
miseVars == <<requests, url, uname, tag, name, tmpdir, installed>>

---------------------------------------------------------------------------
(* Bounds of the model *)

\* largest number of entries of one configuration list
MaxLen == 2
\* largest number of entries of all configuration lists together
MaxItems == 2
\* largest number of "/"-separated segments of the redirect target's path
MaxSegs == 6

---------------------------------------------------------------------------
(* class _Task, class Config *)

Tasks == {"main", "prepare_dotfiles", "prepare_docker", "install_mise"}

Fields == <<"apt", "snap", "snap_classic", "mise_core", "mise", "uv_python",
            "uv_tool", "docker_apt", "docker_image", "setup">>

FieldSet == {Fields[i] : i \in 1..Len(Fields)}

Python == "python3"
Script == "main.py"
User == "user"

\* exit statuses a child process may return: zero, or not
ExitStatuses == {0, 1}

Min(a, b) == IF a < b THEN a ELSE b

---------------------------------------------------------------------------
(* The configuration file (config.toml) *)

\* the entries of a list of plain strings: opaque to the orchestrator
ListOf(f, n) == [i \in 1..n |-> f \o ToString(i)]

\* entries of uv_tool: a plain string or an _Argument
UvToolEntries ==
    { [str |-> "ruff"],
      [operand |-> "ruff", options |-> <<"--python", "3.12">>],
      [operand |-> "black", options |-> <<>>] }

\* the lengths of the first k lists, at most `budget` entries together
RECURSIVE LenVecs(_, _)
LenVecs(k, budget) ==
    IF k = 0 THEN {<<>>}
    ELSE UNION { {Append(v, n) : v \in LenVecs(k - 1, budget - n)} :
                 n \in 0..Min(MaxLen, budget) }

FieldIndex(f) == CHOOSE i \in 1..Len(Fields) : Fields[i] = f

\* the parsed documents: every field a list, except the fields left out
\* (at most one field is left out)
RawConfigs ==
    UNION { UNION { { [f \in FieldSet \ missing |->
                        IF f = "uv_tool" THEN tools
                        ELSE ListOf(f, v[FieldIndex(f)])] :
                      tools \in [1..v[FieldIndex("uv_tool")] -> UvToolEntries] } :
                    v \in LenVecs(Len(Fields), MaxItems) } :
            missing \in {{}} \cup {{f} : f \in FieldSet} }

NoConfig == [f \in {} |-> <<>>]
NoEnv == [f \in {} |-> <<>>]

---------------------------------------------------------------------------
(* Initial state: a process about to enter main() *)

\* the option argparse adds to every parser
HelpFlag == "-h"

ArgvSet ==
    {<<>>} \cup {<<t>> : t \in Tasks \cup {"bogus", HelpFlag}}
           \cup {<<"main", "main">>}

NoUname == [system |-> "", machine |-> ""]
NoUrl == [host |-> "", path |-> <<>>]

\* only the full run searches PATH (shutil.which): what resolves there is
\* left out of the state of the other tasks
SearchesPath(args) == args = <<>> \/ args = <<"main">>

Init ==
    /\ argv \in ArgvSet
    /\ pc = "parse_args"
    /\ exit = 0
    /\ task = ""
    /\ config = NoConfig
    /\ env = NoEnv
    /\ issued = <<>>
    /\ need_docker = FALSE
    /\ need_mise = FALSE
    /\ idx = 1
    /\ dockerOnPath \in (IF SearchesPath(argv) THEN BOOLEAN ELSE {FALSE})
    /\ miseOnPath \in (IF SearchesPath(argv) THEN BOOLEAN ELSE {FALSE})
    /\ requests = <<>>
    /\ url = NoUrl
    /\ uname = NoUname
    /\ tag = ""
    /\ name = ""
    /\ tmpdir = FALSE
    /\ installed = {}

---------------------------------------------------------------------------
(* The statements of the full run, in the order main() holds them *)

\* mutant: the package install is held before the index refresh
StepsInstallFirst ==
    <<"dotfiles", "docker_repo", "apt_install", "apt_update",
      "apt_dist_upgrade", "usermod", "apt_autopurge", "apt_autoclean",
      "snap_refresh", "snap_install", "snap_classic", "mise", "mise_upgrade",
      "mise_use_core", "mise_use", "uv_python_upgrade", "uv_python_install",
      "uv_tool_upgrade", "uv_tool_install", "docker_pull", "setup">>

\* mutant: the user joins the Docker group after the prune
StepsUsermodLate ==
    <<"dotfiles", "docker_repo", "apt_update", "apt_dist_upgrade",
      "apt_install", "apt_autopurge", "apt_autoclean", "usermod",
      "snap_refresh", "snap_install", "snap_classic", "mise", "mise_upgrade",
      "mise_use_core", "mise_use", "uv_python_upgrade", "uv_python_install",
      "uv_tool_upgrade", "uv_tool_install", "docker_pull", "setup">>

Steps ==
    <<"dotfiles", "docker_repo", "apt_update", "apt_dist_upgrade",
      "apt_install", "usermod", "apt_autopurge", "apt_autoclean",
      "snap_refresh", "snap_install", "snap_classic", "mise", "mise_upgrade",
      "mise_use_core", "mise_use", "uv_python_upgrade", "uv_python_install",
      "uv_tool_upgrade", "uv_tool_install", "docker_pull", "setup">>

StepIndex(step) == CHOOSE i \in 1..Len(Steps) : Steps[i] = step

\* the statement that follows `step`; main() returns after the last one
After(step) ==
    IF StepIndex(step) = Len(Steps) THEN "return"
    ELSE Steps[StepIndex(step) + 1]

---------------------------------------------------------------------------
(* Exceptions and the Command Runner *)

\* an uncaught exception: the interpreter ends the process with status 1
Raise ==
    /\ pc' = "done"
    /\ exit' = 1

\* _check_call(*args, env=env) where the child returns status st;
\* check=True raises CalledProcessError on a non-zero status
CheckCall(args, st, next) ==
    /\ issued' = Append(issued, [args |-> args, env |-> env, status |-> st])
    /\ IF st = 0
       THEN pc' = next /\ exit' = exit
       ELSE Raise

\* a step of main() that issues no command
Skip(next) ==
    /\ pc' = next
    /\ UNCHANGED <<exit, issued>>

---------------------------------------------------------------------------
(* Task Dispatcher *)

\* mutant: every selector of the set runs the full sequence
TaskEntryAlwaysMain(t) == "load_config"

TaskEntry(t) == IF t = "main" THEN "load_config" ELSE t

\* _parse_args and the match of main()
ParseArgs ==
    /\ pc = "parse_args"
    /\ IF Len(argv) > 1
       THEN \* argparse: unrecognized arguments
            /\ pc' = "done" /\ exit' = 2 /\ task' = task
       ELSE IF argv = <<HelpFlag>>
       THEN \* argparse: the help text is printed, SystemExit(0)
            /\ pc' = "done" /\ exit' = 0 /\ task' = task
       ELSE LET selector == IF argv = <<>> THEN "main" ELSE argv[1]
            IN  IF selector \in Tasks
                THEN /\ task' = selector
                     /\ pc' = TaskEntry(selector)
                     /\ exit' = exit
                ELSE \* _Task(...) raises ValueError
                     Raise /\ task' = task
    /\ UNCHANGED <<argv, runVars, miseVars>>

---------------------------------------------------------------------------
(* Full run: configuration and environment *)

\* _load_config: tomllib.load raises on a malformed document (and open on
\* an unreadable file); Config(**raw) builds a plain dict of whatever keys
\* the document holds
LoadConfig ==
    /\ pc = "load_config"
    /\ \/ Raise /\ config' = config
       \/ \E raw \in RawConfigs :
            /\ config' = raw
            /\ pc' = "prepare_env"
            /\ exit' = exit
    /\ UNCHANGED <<argv, task, env, issued, need_docker, need_mise, idx,
                   dockerOnPath, miseOnPath, miseVars>>

\* mutant: the local-bin directory is searched before the shims
CleanEnvLocalBinFirst ==
    [PATH |-> <<"~/.local/bin", "~/.local/share/mise/shims", "os.defpath">>,
     HOME |-> "~"]

\* _prepare_clean_env
CleanEnv ==
    [PATH |-> <<"~/.local/share/mise/shims", "~/.local/bin", "os.defpath">>,
     HOME |-> "~"]

\* env = _prepare_clean_env(); user = getpass.getuser()
PrepareEnv ==
    /\ pc = "prepare_env"
    /\ env' = CleanEnv
    /\ pc' = Steps[1]
    /\ UNCHANGED <<argv, exit, task, config, issued, need_docker, need_mise,
                   idx, dockerOnPath, miseOnPath, miseVars>>

\* shutil.which(cmd, path=env["PATH"]) is None
NotResolvable(onPath) == ~onPath

mainFrame == <<argv, task, config, env, miseVars>>

---------------------------------------------------------------------------
(* Full run: dotfiles, Docker repository, APT *)

\* mutant: the sub-process is started with no selector
DotfilesArgsNoSelector == <<Python, Script>>

DotfilesArgs == <<Python, Script, "prepare_dotfiles">>

Dotfiles ==
    /\ pc = "dotfiles"
    /\ \E st \in ExitStatuses :
         CheckCall(DotfilesArgs, st, After("dotfiles"))
    /\ UNCHANGED <<mainFrame, need_docker, need_mise, idx, dockerOnPath,
                   miseOnPath>>

DockerRepoArgs == <<"sudo", Python, Script, "prepare_docker">>

DockerRepo ==
    /\ pc = "docker_repo"
    /\ need_docker' = NotResolvable(dockerOnPath)
    /\ IF need_docker'
       THEN \E st \in ExitStatuses :
              CheckCall(DockerRepoArgs, st, After("docker_repo"))
       ELSE Skip(After("docker_repo"))
    /\ UNCHANGED <<mainFrame, need_mise, idx, dockerOnPath, miseOnPath>>

AptUpdateArgs == <<"sudo", "apt-get", "update">>

AptUpdate ==
    /\ pc = "apt_update"
    /\ \E st \in ExitStatuses :
         CheckCall(AptUpdateArgs, st, After("apt_update"))
    /\ UNCHANGED <<mainFrame, need_docker, need_mise, idx, dockerOnPath,
                   miseOnPath>>

AptDistUpgradeArgs == <<"sudo", "apt-get", "-y", "dist-upgrade">>

AptDistUpgrade ==
    /\ pc = "apt_dist_upgrade"
    /\ \E st \in ExitStatuses :
         CheckCall(AptDistUpgradeArgs, st, After("apt_dist_upgrade"))
    /\ UNCHANGED <<mainFrame, need_docker, need_mise, idx, dockerOnPath,
                   miseOnPath>>

\* operands = [*config["apt"]]; extended by config["docker_apt"] if need_docker
AptOperands ==
    config["apt"] \o (IF need_docker THEN config["docker_apt"] ELSE <<>>)

AptInstallArgs(operands) ==
    <<"sudo", "apt-get", "-y", "install", "--">> \o operands

\* a successful install of Docker's packages may make docker resolvable
AptInstall ==
    /\ pc = "apt_install"
    /\ IF \/ "apt" \notin DOMAIN config
          \/ need_docker /\ "docker_apt" \notin DOMAIN config
       THEN \* KeyError
            Raise /\ UNCHANGED <<issued, dockerOnPath>>
       ELSE IF AptOperands # <<>>
       THEN \E st \in ExitStatuses :
              /\ CheckCall(AptInstallArgs(AptOperands), st,
                           After("apt_install"))
              /\ dockerOnPath' \in
                   IF st = 0 /\ need_docker /\ config["docker_apt"] # <<>>
                   THEN {dockerOnPath, TRUE} ELSE {dockerOnPath}
       ELSE Skip(After("apt_install")) /\ UNCHANGED dockerOnPath
    /\ UNCHANGED <<mainFrame, need_docker, need_mise, idx, miseOnPath>>

\* mutant: PATH is searched again before the user joins the group
UsermodRechecks ==
    /\ pc = "usermod"
    /\ IF NotResolvable(dockerOnPath)
       THEN \E st \in ExitStatuses :
              CheckCall(<<"sudo", "usermod", "-aG", "docker", User>>, st,
                        After("usermod"))
       ELSE Skip(After("usermod"))
    /\ UNCHANGED <<mainFrame, need_docker, need_mise, idx, dockerOnPath,
                   miseOnPath>>

UsermodArgs == <<"sudo", "usermod", "-aG", "docker", User>>

Usermod ==
    /\ pc = "usermod"
    /\ IF need_docker
       THEN \E st \in ExitStatuses :
              CheckCall(UsermodArgs, st, After("usermod"))
       ELSE Skip(After("usermod"))
    /\ UNCHANGED <<mainFrame, need_docker, need_mise, idx, dockerOnPath,
                   miseOnPath>>

AptAutopurgeArgs == <<"sudo", "apt-get", "-y", "autopurge">>

AptAutopurge ==
    /\ pc = "apt_autopurge"
    /\ \E st \in ExitStatuses :
         CheckCall(AptAutopurgeArgs, st, After("apt_autopurge"))
    /\ UNCHANGED <<mainFrame, need_docker, need_mise, idx, dockerOnPath,
                   miseOnPath>>

AptAutocleanArgs == <<"sudo", "apt-get", "-y", "autoclean">>

AptAutoclean ==
    /\ pc = "apt_autoclean"
    /\ \E st \in ExitStatuses :
         CheckCall(AptAutocleanArgs, st, After("apt_autoclean"))
    /\ UNCHANGED <<mainFrame, need_docker, need_mise, idx, dockerOnPath,
                   miseOnPath>>

---------------------------------------------------------------------------
(* Full run: Snap *)

SnapRefreshArgs == <<"sudo", "snap", "refresh">>

SnapRefresh ==
    /\ pc = "snap_refresh"
    /\ \E st \in ExitStatuses :
         CheckCall(SnapRefreshArgs, st, After("snap_refresh"))
    /\ UNCHANGED <<mainFrame, need_docker, need_mise, idx, dockerOnPath,
                   miseOnPath>>

\* mutant: the install is issued even when the list is empty
SnapInstallAlways ==
    /\ pc = "snap_install"
    /\ IF "snap" \notin DOMAIN config
       THEN Raise /\ UNCHANGED issued
       ELSE \E st \in ExitStatuses :
              CheckCall(<<"sudo", "snap", "install", "--">> \o config["snap"],
                        st, After("snap_install"))
    /\ UNCHANGED <<mainFrame, need_docker, need_mise, idx, dockerOnPath,
                   miseOnPath>>

SnapInstallArgs(operands) ==
    <<"sudo", "snap", "install", "--">> \o operands

SnapInstall ==
    /\ pc = "snap_install"
    /\ IF "snap" \notin DOMAIN config
       THEN Raise /\ UNCHANGED issued
       ELSE IF config["snap"] # <<>>
       THEN \E st \in ExitStatuses :
              CheckCall(SnapInstallArgs(config["snap"]), st,
                        After("snap_install"))
       ELSE Skip(After("snap_install"))
    /\ UNCHANGED <<mainFrame, need_docker, need_mise, idx, dockerOnPath,
                   miseOnPath>>

SnapClassicArgs(operand) ==
    <<"sudo", "snap", "install", "--classic", "--", operand>>

\* for operand in config["snap_classic"]
SnapClassic ==
    /\ pc = "snap_classic"
    /\ IF "snap_classic" \notin DOMAIN config
       THEN Raise /\ UNCHANGED <<issued, idx>>
       ELSE IF idx <= Len(config["snap_classic"])
       THEN \E st \in ExitStatuses :
              /\ CheckCall(SnapClassicArgs(config["snap_classic"][idx]), st,
                           "snap_classic")
              /\ idx' = IF st = 0 THEN idx + 1 ELSE idx
       ELSE Skip(After("snap_classic")) /\ idx' = 1
    /\ UNCHANGED <<mainFrame, need_docker, need_mise, dockerOnPath,
                   miseOnPath>>

---------------------------------------------------------------------------
(* Full run: Mise *)

\* mutant: the installer sub-process is escalated
InstallMiseArgsSudo == <<"sudo", Python, Script, "install_mise">>

InstallMiseArgs == <<Python, Script, "install_mise">>
MiseSelfUpdateArgs == <<"mise", "self-update", "-y">>
MiseUpgradeArgs == <<"mise", "upgrade", "--bump">>

\* mutant: the status of the installer sub-process is not checked
MiseIgnoresInstaller ==
    /\ pc = "mise"
    /\ need_mise' = NotResolvable(miseOnPath)
    /\ IF need_mise'
       THEN \E st \in ExitStatuses :
              /\ issued' = Append(issued, [args |-> InstallMiseArgs,
                                            env |-> env, status |-> st])
              /\ pc' = After("mise_upgrade")
              /\ exit' = exit
              /\ miseOnPath' = IF st = 0 THEN TRUE ELSE miseOnPath
       ELSE \E st \in ExitStatuses :
              /\ CheckCall(MiseSelfUpdateArgs, st, After("mise"))
              /\ miseOnPath' = miseOnPath
    /\ UNCHANGED <<mainFrame, need_docker, idx, dockerOnPath>>

\* mutant: the upgrade follows the installer as well
MiseUpgradesAfterInstall ==
    /\ pc = "mise"
    /\ need_mise' = NotResolvable(miseOnPath)
    /\ \E st \in ExitStatuses :
         /\ CheckCall(IF need_mise' THEN InstallMiseArgs
                      ELSE MiseSelfUpdateArgs, st, After("mise"))
         /\ miseOnPath' = IF need_mise' /\ st = 0 THEN TRUE ELSE miseOnPath
    /\ UNCHANGED <<mainFrame, need_docker, idx, dockerOnPath>>

\* need_mise and the branch it selects; the installer sub-process, when it
\* succeeds, has written ~/.local/bin/mise, a directory of the clean PATH
Mise ==
    /\ pc = "mise"
    /\ need_mise' = NotResolvable(miseOnPath)
    /\ IF need_mise'
       THEN \E st \in ExitStatuses :
              /\ CheckCall(InstallMiseArgs, st,
                           After("mise_upgrade"))
              /\ miseOnPath' = IF st = 0 THEN TRUE ELSE miseOnPath
       ELSE \E st \in ExitStatuses :
              /\ CheckCall(MiseSelfUpdateArgs, st, After("mise"))
              /\ miseOnPath' = miseOnPath
    /\ UNCHANGED <<mainFrame, need_docker, idx, dockerOnPath>>

MiseUpgrade ==
    /\ pc = "mise_upgrade"
    /\ \E st \in ExitStatuses :
         CheckCall(MiseUpgradeArgs, st, After("mise_upgrade"))
    /\ UNCHANGED <<mainFrame, need_docker, need_mise, idx, dockerOnPath,
                   miseOnPath>>

MiseUseArgs(operands) == <<"mise", "use", "-g", "--">> \o operands

MiseUseCore ==
    /\ pc = "mise_use_core"
    /\ IF "mise_core" \notin DOMAIN config
       THEN Raise /\ UNCHANGED issued
       ELSE IF config["mise_core"] # <<>>
       THEN \E st \in ExitStatuses :
              CheckCall(MiseUseArgs(config["mise_core"]), st,
                        After("mise_use_core"))
       ELSE Skip(After("mise_use_core"))
    /\ UNCHANGED <<mainFrame, need_docker, need_mise, idx, dockerOnPath,
                   miseOnPath>>

MiseUse ==
    /\ pc = "mise_use"
    /\ IF "mise" \notin DOMAIN config
       THEN Raise /\ UNCHANGED issued
       ELSE IF config["mise"] # <<>>
       THEN \E st \in ExitStatuses :
              CheckCall(MiseUseArgs(config["mise"]), st, After("mise_use"))
       ELSE Skip(After("mise_use"))
    /\ UNCHANGED <<mainFrame, need_docker, need_mise, idx, dockerOnPath,
                   miseOnPath>>

---------------------------------------------------------------------------
(* Full run: uv *)

UvPythonUpgradeArgs == <<"uv", "python", "upgrade">>

UvPythonUpgrade ==
    /\ pc = "uv_python_upgrade"
    /\ \E st \in ExitStatuses :
         CheckCall(UvPythonUpgradeArgs, st, After("uv_python_upgrade"))
    /\ UNCHANGED <<mainFrame, need_docker, need_mise, idx, dockerOnPath,
                   miseOnPath>>

UvPythonInstallArgs(operands) ==
    <<"uv", "python", "install", "--">> \o operands

UvPythonInstall ==
    /\ pc = "uv_python_install"
    /\ IF "uv_python" \notin DOMAIN config
       THEN Raise /\ UNCHANGED issued
       ELSE IF config["uv_python"] # <<>>
       THEN \E st \in ExitStatuses :
              CheckCall(UvPythonInstallArgs(config["uv_python"]), st,
                        After("uv_python_install"))
       ELSE Skip(After("uv_python_install"))
    /\ UNCHANGED <<mainFrame, need_docker, need_mise, idx, dockerOnPath,
                   miseOnPath>>

UvToolUpgradeArgs == <<"uv", "tool", "upgrade", "--all">>

UvToolUpgrade ==
    /\ pc = "uv_tool_upgrade"
    /\ \E st \in ExitStatuses :
         CheckCall(UvToolUpgradeArgs, st, After("uv_tool_upgrade"))
    /\ UNCHANGED <<mainFrame, need_docker, need_mise, idx, dockerOnPath,
                   miseOnPath>>

\* mutant: the options of a structured entry are dropped
EnsureArgumentBare(item) ==
    [operand |-> IF "str" \in DOMAIN item THEN item["str"] ELSE item["operand"],
     options |-> <<>>]

\* _ensure_argument
EnsureArgument(item) ==
    IF "str" \in DOMAIN item
    THEN [operand |-> item["str"], options |-> <<>>]
    ELSE item

UvToolInstallArgs(argument) ==
    <<"uv", "tool", "install">> \o argument["options"]
        \o <<"--", argument["operand"]>>

\* for item in config["uv_tool"]
UvToolInstall ==
    /\ pc = "uv_tool_install"
    /\ IF "uv_tool" \notin DOMAIN config
       THEN Raise /\ UNCHANGED <<issued, idx>>
       ELSE IF idx <= Len(config["uv_tool"])
       THEN LET argument == EnsureArgument(config["uv_tool"][idx])
            IN  \E st \in ExitStatuses :
                  /\ CheckCall(UvToolInstallArgs(argument), st,
                               "uv_tool_install")
                  /\ idx' = IF st = 0 THEN idx + 1 ELSE idx
       ELSE Skip(After("uv_tool_install")) /\ idx' = 1
    /\ UNCHANGED <<mainFrame, need_docker, need_mise, dockerOnPath,
                   miseOnPath>>

---------------------------------------------------------------------------
(* Full run: Docker images and the setup script *)

\* mutant: the operand follows the subcommand directly
DockerPullArgsNoMarker(operand) == <<"sudo", "docker", "pull", operand>>

DockerPullArgs(operand) == <<"sudo", "docker", "pull", "--", operand>>

\* for operand in config["docker_image"]
DockerPull ==
    /\ pc = "docker_pull"
    /\ IF "docker_image" \notin DOMAIN config
       THEN Raise /\ UNCHANGED <<issued, idx>>
       ELSE IF idx <= Len(config["docker_image"])
       THEN \E st \in ExitStatuses :
              /\ CheckCall(DockerPullArgs(config["docker_image"][idx]), st,
                           "docker_pull")
              /\ idx' = IF st = 0 THEN idx + 1 ELSE idx
       ELSE Skip(After("docker_pull")) /\ idx' = 1
    /\ UNCHANGED <<mainFrame, need_docker, need_mise, dockerOnPath,
                   miseOnPath>>

SetupArgs(command) == <<"/bin/sh", "-c", command>>

\* for command in config["setup"]
Setup ==
    /\ pc = "setup"
    /\ IF "setup" \notin DOMAIN config
       THEN Raise /\ UNCHANGED <<issued, idx>>
       ELSE IF idx <= Len(config["setup"])
       THEN \E st \in ExitStatuses :
              /\ CheckCall(SetupArgs(config["setup"][idx]), st, "setup")
              /\ idx' = IF st = 0 THEN idx + 1 ELSE idx
       ELSE Skip(After("setup")) /\ idx' = 1
    /\ UNCHANGED <<mainFrame, need_docker, need_mise, dockerOnPath,
                   miseOnPath>>

\* main() returns: the interpreter ends the process with status 0
Return ==
    /\ pc = "return"
    /\ pc' = "done"
    /\ exit' = 0
    /\ UNCHANGED <<argv, task, runVars, miseVars>>

---------------------------------------------------------------------------
(* Single-purpose tasks: dotfiles and the Docker repository *)

\* _prepare_dotfiles: mkdir and copytree either all succeed or one raises
PrepareDotfiles ==
    /\ pc = "prepare_dotfiles"
    /\ pc' = "done"
    /\ exit' \in {0, 1}
    /\ UNCHANGED <<argv, task, runVars, miseVars>>

GpgUrl == "https://download.docker.com/linux/${ID}/gpg"

\* _prepare_docker: os-release is read, the key is fetched, two files are
\* written; any of them may raise
PrepareDocker ==
    /\ pc = "prepare_docker"
    /\ pc' = "done"
    /\ \/ exit' = 1 /\ requests' = requests
       \/ exit' \in {0, 1} /\ requests' = Append(requests, GpgUrl)
    /\ UNCHANGED <<argv, task, runVars, url, uname, tag, name, tmpdir,
                   installed>>

---------------------------------------------------------------------------
(* _install_mise: Release Resolver *)

LatestReleaseUrl == "https://github.com/jdx/mise/releases/latest"
ReleaseHost == "github.com"

Hosts == {ReleaseHost, "example.org"}
Segments == {"", ".", "jdx", "releases", "tag", "v1.2.3"}

\* the path of a URL, as the segments that follow each "/":
\* "" is <<>>, "/" is <<"">>, "/a/b/" is <<"a", "b", "">>
Paths == UNION {[1..n -> Segments] : n \in 0..MaxSegs}

\* posixpath.splitroot: two leading slashes are kept, three or more are one
Root(raw) ==
    IF Len(raw) >= 2 /\ raw[1] = "" /\ ~(Len(raw) >= 3 /\ raw[2] = "")
    THEN "//" ELSE "/"

IsName(x) == x # "" /\ x # "."

\* PurePosixPath(path).parts: the root, then the segments that are neither
\* empty nor "."
Parts(raw) ==
    IF Len(raw) = 0 THEN <<>> ELSE <<Root(raw)>> \o SelectSeq(raw, IsName)

\* mutant: segments after the tag are tolerated
MatchesReleaseLoose(parts) ==
    /\ Len(parts) >= 6
    /\ parts[4] = "releases"
    /\ parts[5] = "tag"

\* case [str(), str(), str(), "releases", "tag", str() as _tag]
MatchesRelease(parts) ==
    /\ Len(parts) = 6
    /\ parts[4] = "releases"
    /\ parts[5] = "tag"

TagOf(parts) == parts[6]

\* urlopen(latest_release_url), urlsplit(response.url) and the match
ResolveTag ==
    /\ pc = "install_mise"
    /\ requests' = Append(requests, LatestReleaseUrl)
    /\ \/ \* URLError, HTTPError
          Raise /\ UNCHANGED <<url, tag>>
       \/ \E h \in Hosts, p \in Paths :
            /\ url' = [host |-> h, path |-> p]
            /\ IF MatchesRelease(Parts(p))
               THEN /\ tag' = TagOf(Parts(p))
                    /\ pc' = "platform"
                    /\ exit' = exit
               ELSE \* ValueError(path)
                    Raise /\ tag' = tag
    /\ UNCHANGED <<argv, task, runVars, uname, name, tmpdir, installed>>

---------------------------------------------------------------------------
(* _install_mise: Archive Installer *)

Unames == [system : {"Linux", "Darwin"},
           machine : {"x86_64", "aarch64", "armv7l"}]

SupportedSystem(s) == s = "Linux"

\* mutant: a 32-bit ARM machine is taken for a supported one
SupportedMachineAnyArm(m) == m \in {"x86_64", "aarch64", "armv7l"}

SupportedMachine(m) == m \in {"x86_64", "aarch64"}
System(s) == "linux"
Machine(m) == IF m = "x86_64" THEN "x64" ELSE "arm64"

AssetName(t, s, m) ==
    "mise-" \o t \o "-" \o System(s) \o "-" \o Machine(m) \o ".tar.gz"

DownloadUrl == "https://github.com/jdx/mise/releases/download"
TarballUrl(t, n) == DownloadUrl \o "/" \o t \o "/" \o n

\* platform.uname() and the two matches; name = f"mise-{tag}-..."
Platform ==
    /\ pc = "platform"
    /\ \E u \in Unames :
         /\ uname' = u
         /\ IF SupportedSystem(u.system) /\ SupportedMachine(u.machine)
            THEN /\ name' = AssetName(tag, u.system, u.machine)
                 /\ pc' = "tmpdir"
                 /\ exit' = exit
            ELSE \* ValueError(uname.system), ValueError(uname.machine)
                 Raise /\ name' = name
    /\ UNCHANGED <<argv, task, runVars, requests, url, tag, tmpdir, installed>>

\* mutant: the directory is left behind when the block is left
LeaveTmpdirKept == tmpdir' = tmpdir

\* TemporaryDirectory.__exit__: the directory is removed however the with
\* block is left
LeaveTmpdir == tmpdir' = FALSE

\* with TemporaryDirectory() as tmpdir: mkdtemp may raise OSError
EnterTmpdir ==
    /\ pc = "tmpdir"
    /\ \/ Raise /\ tmpdir' = tmpdir
       \/ pc' = "download" /\ exit' = exit /\ tmpdir' = TRUE
    /\ UNCHANGED <<argv, task, runVars, requests, url, uname, tag, name,
                   installed>>

\* urlopen(tarball_url)
Download ==
    /\ pc = "download"
    /\ requests' = Append(requests, TarballUrl(tag, name))
    /\ \/ \* URLError, HTTPError
          Raise /\ LeaveTmpdir
       \/ pc' = "extract" /\ exit' = exit /\ tmpdir' = tmpdir
    /\ UNCHANGED <<argv, task, runVars, url, uname, tag, name, installed>>

\* tarfile.open(fileobj=response, mode="r|gz"); tar.extractall
Extract ==
    /\ pc = "extract"
    /\ \/ \* ReadError, FilterError, OSError
          Raise /\ LeaveTmpdir
       \/ pc' = "copy_bin" /\ exit' = exit /\ tmpdir' = tmpdir
    /\ UNCHANGED <<argv, task, runVars, requests, url, uname, tag, name,
                   installed>>

\* mutant: the manual page is the first file copied
FirstCopiedMan == "man"

\* the destination files, by the order of the two copies
FirstCopied == "bin"
SecondCopied == IF FirstCopied = "bin" THEN "man" ELSE "bin"

\* shutil.copy2(src, dst) that raises: dst is untouched when the source is
\* missing or dst cannot be opened, and holds a partial copy otherwise
FailedCopy(dst) ==
    /\ Raise
    /\ LeaveTmpdir
    /\ installed' \in {installed, installed \cup {dst}}

\* shutil.copy2(src, ~/.local/bin/mise)
CopyBin ==
    /\ pc = "copy_bin"
    /\ \/ FailedCopy(FirstCopied)
       \/ /\ installed' = installed \cup {FirstCopied}
          /\ pc' = "copy_man" /\ exit' = exit /\ tmpdir' = tmpdir
    /\ UNCHANGED <<argv, task, runVars, requests, url, uname, tag, name>>

\* shutil.copy2(src, ~/.local/share/man/man1/mise.1); the with block ends
CopyMan ==
    /\ pc = "copy_man"
    /\ \/ FailedCopy(SecondCopied)
       \/ /\ installed' = installed \cup {SecondCopied}
          /\ pc' = "done" /\ exit' = 0
          /\ LeaveTmpdir
    /\ UNCHANGED <<argv, task, runVars, requests, url, uname, tag, name>>

---------------------------------------------------------------------------
(* The process *)

\* the statements of the full run
RunSteps ==
    \/ LoadConfig
    \/ PrepareEnv
    \/ Dotfiles
    \/ DockerRepo
    \/ AptUpdate
    \/ AptDistUpgrade
    \/ AptInstall
    \/ Usermod
    \/ AptAutopurge
    \/ AptAutoclean
    \/ SnapRefresh
    \/ SnapInstall
    \/ SnapClassic
    \/ Mise
    \/ MiseUpgrade
    \/ MiseUseCore
    \/ MiseUse
    \/ UvPythonUpgrade
    \/ UvPythonInstall
    \/ UvToolUpgrade
    \/ UvToolInstall
    \/ DockerPull
    \/ Setup
    \/ Return

\* the statements of _install_mise
InstallerSteps ==
    \/ ResolveTag
    \/ Platform
    \/ EnterTmpdir
    \/ Download
    \/ Extract
    \/ CopyBin
    \/ CopyMan

Next ==
    \/ ParseArgs
    \/ RunSteps
    \/ PrepareDotfiles
    \/ PrepareDocker
    \/ InstallerSteps

\* a process started with any argument vector
Spec == Init /\ [][Next]_vars

\* a process started as the full run: no argument, or "main"
InitRun == Init /\ SearchesPath(argv)
NextRun == ParseArgs \/ RunSteps
SpecRun == InitRun /\ [][NextRun]_vars

\* a process started as the installer task
InitInstaller == Init /\ argv = <<"install_mise">>
NextInstaller == ParseArgs \/ InstallerSteps
SpecInstaller == InitInstaller /\ [][NextInstaller]_vars

---------------------------------------------------------------------------
(* Vocabulary of the properties *)

FullRun == task = "main"
Args(i) == issued[i].args
Complete(cfg) == DOMAIN cfg = FieldSet
Range(seq) == {seq[i] : i \in DOMAIN seq}
IsPrefix(p, q) == Len(p) <= Len(q) /\ SubSeq(q, 1, Len(p)) = p
IsSuffix(p, q) ==
    Len(p) <= Len(q) /\ SubSeq(q, Len(q) - Len(p) + 1, Len(q)) = p

\* the phase of the fixed order a command line belongs to; 0 for a command
\* the order does not list
Phase(a) ==
    CASE a = <<"python3", "main.py", "prepare_dotfiles">> -> 1
      [] a = <<"sudo", "python3", "main.py", "prepare_docker">> -> 2
      [] a = <<"sudo", "apt-get", "update">> -> 3
      [] a = <<"sudo", "apt-get", "-y", "dist-upgrade">> -> 4
      [] IsPrefix(<<"sudo", "apt-get", "-y", "install">>, a) -> 5
      [] a = <<"sudo", "apt-get", "-y", "autopurge">> -> 6
      [] a = <<"sudo", "apt-get", "-y", "autoclean">> -> 7
      [] a = <<"sudo", "snap", "refresh">> -> 8
      [] IsPrefix(<<"sudo", "snap", "install">>, a) -> 9
      [] a = <<"python3", "main.py", "install_mise">> -> 10
      [] a = <<"mise", "self-update", "-y">> -> 10
      [] a = <<"mise", "upgrade", "--bump">> -> 10
      [] IsPrefix(<<"mise", "use">>, a) -> 11
      [] a = <<"uv", "python", "upgrade">> -> 12
      [] IsPrefix(<<"uv", "python", "install">>, a) -> 13
      [] a = <<"uv", "tool", "upgrade", "--all">> -> 14
      [] IsPrefix(<<"uv", "tool", "install">>, a) -> 15
      [] IsPrefix(<<"sudo", "docker", "pull">>, a) -> 16
      [] IsPrefix(<<"/bin/sh", "-c">>, a) -> 17
      [] OTHER -> 0

\* phases that may hold several commands
Repeatable == {9, 10, 11, 15, 16, 17}

\* the phases of the commands of a log
RECURSIVE Phases(_)
Phases(log) ==
    IF log = <<>> THEN <<>>
    ELSE <<Phase(Head(log).args)>> \o Phases(Tail(log))

IsUsermod(a) == a = <<"sudo", "usermod", "-aG", "docker", "user">>
LastArg(c) == c.args[Len(c.args)]

---------------------------------------------------------------------------
(* C1 *)

\* C1 (as claimed): in a full run a command that exits non-zero is the last
\* command issued and the run ends with a non-zero exit; and a run that ends
\* after issuing commands that all exited zero ends with exit zero.
C1_AsClaimed ==
    FullRun =>
        /\ \A i \in DOMAIN issued :
             issued[i].status # 0 =>
                 i = Len(issued) /\ pc = "done" /\ exit # 0
        /\ ( /\ pc = "done"
             /\ issued # <<>>
             /\ \A i \in DOMAIN issued : issued[i].status = 0 )
           => exit = 0

---------------------------------------------------------------------------
(* C2 *)

\* C2 (as claimed): in a full run a configuration that lacks a required
\* field never has a command issued under it, and the run ends in failure.
C2_AsClaimed ==
    (FullRun /\ ~Complete(config)) =>
        /\ issued = <<>>
        /\ pc = "done" => exit # 0

---------------------------------------------------------------------------
(* C3 *)

\* C3: the commands of a full run appear in the fixed phase order (each
\* listed phase after all earlier ones, the single-command phases once),
\* apt-get update precedes any apt-get install, mise use registers the core
\* list before the general one, and the image pulls and the setup commands
\* follow the order of their configuration lists.
C3_PhaseOrder ==
    FullRun =>
        LET ph == Phases(issued)
            Nth(j) == Cardinality({i \in 1..j : ph[i] = ph[j]})
        IN  /\ \A j \in DOMAIN issued : \A i \in 1..(j - 1) :
                 (ph[i] # 0 /\ ph[j] # 0) =>
                     /\ ph[i] <= ph[j]
                     /\ ph[i] = ph[j] => ph[i] \in Repeatable
            /\ \A j \in DOMAIN issued :
                 ph[j] = 5 =>
                     \E i \in 1..(j - 1) : ph[i] = 3 /\ issued[i].status = 0
            /\ \A j \in DOMAIN issued : \A i \in 1..(j - 1) :
                 (ph[i] = 11 /\ ph[j] = 11) =>
                     /\ Args(i) = <<"mise", "use", "-g", "--">>
                                    \o config["mise_core"]
                     /\ Args(j) = <<"mise", "use", "-g", "--">>
                                    \o config["mise"]
            /\ \A j \in DOMAIN issued :
                 ph[j] = 16 =>
                     /\ Nth(j) <= Len(config["docker_image"])
                     /\ LastArg(issued[j]) = config["docker_image"][Nth(j)]
            /\ \A j \in DOMAIN issued :
                 ph[j] = 17 =>
                     /\ Nth(j) <= Len(config["setup"])
                     /\ LastArg(issued[j]) = config["setup"][Nth(j)]

\* C3 witness: a full run that completed after two image pulls
C3_Witness ==
    /\ FullRun /\ pc = "done" /\ exit = 0
    /\ \E i, j \in DOMAIN issued :
         i < j /\ Phase(Args(i)) = 16 /\ Phase(Args(j)) = 16

---------------------------------------------------------------------------
(* C4 *)

\* C4 (as claimed): under a complete configuration the user is added to the
\* Docker group only after the prune (autopurge and autoclean) was issued,
\* and before the store refresh.
C4_AsClaimed ==
    (FullRun /\ Complete(config)) =>
        LET ph == Phases(issued)
        IN  \A i \in DOMAIN issued :
              IsUsermod(Args(i)) =>
                  /\ \E j \in 1..(i - 1) : ph[j] = 6
                  /\ \E j \in 1..(i - 1) : ph[j] = 7
                  /\ \A j \in 1..(i - 1) : ph[j] # 8

\* C4 (amended): the user is added to the Docker group after the index
\* refresh, the upgrade and the package install (when one is issued), and
\* before autopurge, autoclean and the store refresh; when Docker was
\* missing the prune is never issued without it.
C4_UsermodBeforePrune ==
    FullRun =>
        LET ph == Phases(issued)
        IN  /\ \A i \in DOMAIN issued :
                 IsUsermod(Args(i)) =>
                     /\ need_docker
                     /\ \E j \in 1..(i - 1) : ph[j] = 3
                     /\ \E j \in 1..(i - 1) : ph[j] = 4
                     /\ \A j \in DOMAIN issued :
                          /\ ph[j] \in {3, 4, 5} => j < i
                          /\ ph[j] \in {6, 7, 8} => j > i
            /\ \A j \in DOMAIN issued :
                 (ph[j] = 6 /\ need_docker) =>
                     \E i \in 1..(j - 1) : IsUsermod(Args(i))

\* C4 witness: install, then usermod, then autopurge, autoclean and the
\* store refresh have been issued
C4_Witness ==
    /\ FullRun
    /\ \E i \in DOMAIN issued :
         /\ IsUsermod(Args(i))
         /\ i > 1 /\ Phase(Args(i - 1)) = 5
         /\ i + 3 <= Len(issued)
         /\ Phase(Args(i + 1)) = 6
         /\ Phase(Args(i + 2)) = 7
         /\ Phase(Args(i + 3)) = 8

---------------------------------------------------------------------------
(* C5 *)

\* C5 (as claimed): under a complete configuration, whenever usermod is
\* issued, an apt-get install whose operands end with Docker's package list
\* was issued earlier in the run and exited zero.
C5_AsClaimed ==
    (FullRun /\ Complete(config)) =>
        \A i \in DOMAIN issued :
            IsUsermod(Args(i)) =>
                \E j \in 1..(i - 1) :
                    /\ IsPrefix(<<"sudo", "apt-get", "-y", "install", "--">>,
                                Args(j))
                    /\ IsSuffix(config["docker_apt"], Args(j))
                    /\ issued[j].status = 0

---------------------------------------------------------------------------
(* C6, C7: Release Resolver *)

Installer == task = "install_mise"
Resolved == url # NoUrl
ResolutionFailed == pc = "done" /\ exit # 0 /\ tag = ""
NoDownload == requests = <<"https://github.com/jdx/mise/releases/latest">>

\* the segments of a path that name something: not empty, not "."
Names(path) == SelectSeq(path, IsName)

\* {org}/{repo}/releases/tag/{tag}, on a list of segments
HasShape(segs) ==
    /\ Len(segs) = 5
    /\ segs[3] = "releases"
    /\ segs[4] = "tag"

\* the shape on the path as written: "/" and five named segments
HasRawShape(path) ==
    /\ HasShape(path)
    /\ \A k \in {1, 2, 5} : IsName(path[k])

\* C6 (as claimed): a redirect target whose path is written as
\* /{org}/{repo}/releases/tag/{tag} resolves to {tag}; every other path
\* fails to resolve and no archive download is attempted.
C6_AsClaimed ==
    (Installer /\ Resolved) =>
        IF HasRawShape(url.path)
        THEN tag = url.path[5]
        ELSE ResolutionFailed /\ NoDownload

\* C6 (amended): the shape is decided on the path's named segments, empty
\* and "." segments dropped (as PurePosixPath does): when they have the
\* shape {org}/{repo}/releases/tag/{tag} the resolved tag is exactly {tag},
\* otherwise resolution fails and no archive download is attempted.
C6_ResolvesNormalisedPath ==
    (Installer /\ Resolved) =>
        IF url.path # <<>> /\ HasShape(Names(url.path))
        THEN tag = Names(url.path)[5]
        ELSE ResolutionFailed /\ NoDownload

\* C6 witness: a path with a trailing slash has resolved to its tag
C6_Witness ==
    /\ Installer
    /\ url.path = <<"jdx", "jdx", "releases", "tag", "v1.2.3", "">>
    /\ tag = "v1.2.3"
    /\ pc = "platform"

\* C7 (as claimed): a redirect target on an unexpected host fails to
\* resolve and yields no tag, whatever its path.
C7_AsClaimed ==
    (Installer /\ Resolved /\ url.host # "github.com") =>
        ResolutionFailed

---------------------------------------------------------------------------
(* C8: Archive Installer, platform mapping *)

PlatformRead == uname # NoUname
ClaimedSupported(u) ==
    u.system = "Linux" /\ u.machine \in {"x86_64", "aarch64"}

\* C8 (as claimed): on an unsupported platform the installer fails having
\* made no network call at all; on a supported one the asset is named
\* mise-{tag}-linux-{x64|arm64}.tar.gz.
C8_AsClaimed ==
    (Installer /\ PlatformRead) =>
        IF ClaimedSupported(uname)
        THEN name = "mise-" \o tag \o "-linux-"
                      \o (IF uname.machine = "x86_64" THEN "x64" ELSE "arm64")
                      \o ".tar.gz"
        ELSE pc = "done" /\ exit # 0 /\ requests = <<>>

\* C8 (amended): on an unsupported platform the installer fails before the
\* archive download: the only network call made is the release-redirect
\* request that resolved the tag; on a supported one the asset is named
\* mise-{tag}-linux-{x64|arm64}.tar.gz.
C8_FailsBeforeDownload ==
    (Installer /\ PlatformRead) =>
        IF ClaimedSupported(uname)
        THEN name = "mise-" \o tag \o "-linux-"
                      \o (IF uname.machine = "x86_64" THEN "x64" ELSE "arm64")
                      \o ".tar.gz"
        ELSE /\ pc = "done" /\ exit # 0
             /\ name = ""
             /\ NoDownload

\* C8 witness: the installer has failed on a Linux host of an unsupported
\* architecture, after the redirect request
C8_Witness ==
    /\ Installer
    /\ uname = [system |-> "Linux", machine |-> "armv7l"]
    /\ pc = "done" /\ exit = 1
    /\ Len(requests) = 1

---------------------------------------------------------------------------
(* C9 *)

AllEmpty == Complete(config) /\ \A f \in FieldSet : config[f] = <<>>
ArgsOf(log) == [i \in DOMAIN log |-> log[i].args]

\* C9 (as claimed): with every list empty and docker on the clean PATH the
\* only commands a full run issues are index refresh, upgrade, autopurge,
\* autoclean and store refresh.
C9_AsClaimed ==
    (FullRun /\ AllEmpty /\ dockerOnPath) =>
        \A i \in DOMAIN issued :
            Args(i) \in { <<"sudo", "apt-get", "update">>,
                          <<"sudo", "apt-get", "-y", "dist-upgrade">>,
                          <<"sudo", "apt-get", "-y", "autopurge">>,
                          <<"sudo", "apt-get", "-y", "autoclean">>,
                          <<"sudo", "snap", "refresh">> }

\* the commands of a run with nothing configured and docker present
C9_Expected ==
    << <<"python3", "main.py", "prepare_dotfiles">>,
       <<"sudo", "apt-get", "update">>,
       <<"sudo", "apt-get", "-y", "dist-upgrade">>,
       <<"sudo", "apt-get", "-y", "autopurge">>,
       <<"sudo", "apt-get", "-y", "autoclean">>,
       <<"sudo", "snap", "refresh">> >>
    \o (IF need_mise
        THEN << <<"python3", "main.py", "install_mise">> >>
        ELSE << <<"mise", "self-update", "-y">>,
                <<"mise", "upgrade", "--bump">> >>)
    \o << <<"uv", "python", "upgrade">>,
          <<"uv", "tool", "upgrade", "--all">> >>

\* C9 (amended): with every list empty and docker on the clean PATH a full
\* run issues the dotfiles preparation, index refresh, upgrade, autopurge,
\* autoclean, store refresh, then the toolchain manager's installer
\* sub-process when the manager is absent and its self-update and upgrade
\* when it is present, then uv python upgrade and uv tool upgrade --all,
\* and nothing else: no package, tool, image or setup command.
C9_OnlyUnconditionalCommands ==
    (FullRun /\ AllEmpty /\ dockerOnPath) =>
        /\ IsPrefix(ArgsOf(issued), C9_Expected)
        /\ (pc = "done" /\ exit = 0) => ArgsOf(issued) = C9_Expected

\* C9 witness: such a run has completed through the installer branch
C9_Witness ==
    /\ FullRun /\ AllEmpty /\ dockerOnPath
    /\ need_mise
    /\ pc = "done" /\ exit = 0

---------------------------------------------------------------------------
(* C10 *)

\* the operands the configuration supplies, the setup commands left out
ConfigOperands ==
    UNION { IF f = "uv_tool"
            THEN { IF "str" \in DOMAIN e THEN e["str"] ELSE e["operand"] :
                   e \in Range(config[f]) }
            ELSE Range(config[f]) :
            f \in DOMAIN config \ {"setup"} }

SetupCommands ==
    IF "setup" \in DOMAIN config THEN Range(config["setup"]) ELSE {}

MarkerBefore(a, k) == \E j \in 1..(k - 1) : a[j] = "--"

\* C10 (as claimed): in every command of a full run every string supplied
\* by the configuration, setup commands included, stands after a "--".
C10_AsClaimed ==
    (FullRun /\ Complete(config)) =>
        LET supplied == ConfigOperands \cup SetupCommands
        IN  \A i \in DOMAIN issued :
              LET a == Args(i)
              IN  \A k \in DOMAIN a :
                    a[k] \in supplied => MarkerBefore(a, k)

\* C10 (amended): every operand supplied by apt, docker_apt, snap,
\* snap_classic, mise_core, mise, uv_python, uv_tool and docker_image
\* stands after a "--" in the command that carries it; a setup command is
\* passed with no marker, as the one argument after /bin/sh -c.
C10_OperandsAfterMarker ==
    FullRun =>
        LET operands == ConfigOperands
            commands == SetupCommands
        IN  \A i \in DOMAIN issued :
              LET a == Args(i)
              IN  \A k \in DOMAIN a :
                    /\ a[k] \in operands => MarkerBefore(a, k)
                    /\ a[k] \in commands => a = <<"/bin/sh", "-c", a[k]>>

\* C10 witness: an image pull and a setup command have been issued
C10_Witness ==
    /\ FullRun
    /\ \E i, j \in DOMAIN issued :
         /\ Args(i) = <<"sudo", "docker", "pull", "--", "docker_image1">>
         /\ Args(j) = <<"/bin/sh", "-c", "setup1">>

---------------------------------------------------------------------------
(* C11 *)

IsUvToolInstall(a) == IsPrefix(<<"uv", "tool", "install">>, a)

\* the invocation a tool entry asks for
ToolInvocation(e) ==
    IF "str" \in DOMAIN e
    THEN <<"uv", "tool", "install", "--", e["str"]>>
    ELSE <<"uv", "tool", "install">> \o e["options"] \o <<"--", e["operand"]>>

\* the log is past the tool installs: a later phase has begun or the run
\* has returned
PastToolInstalls ==
    \/ pc \in {"docker_pull", "setup", "return"}
    \/ pc = "done" /\ exit = 0
    \/ \E i \in DOMAIN issued : Phase(Args(i)) \in {16, 17}

\* C11: the uv tool install invocations of a full run are, in configuration
\* order and one per entry, uv tool install <options...> -- <operand> (a
\* bare name gives the invocation with no options); every one but the last
\* has succeeded, and once the run is past the tool phase there is exactly
\* one for every configured entry.
C11_OneInstallPerTool ==
    (FullRun /\ "uv_tool" \in DOMAIN config) =>
        LET calls == SelectSeq(issued, LAMBDA c : IsUvToolInstall(c.args))
            tools == config["uv_tool"]
        IN  /\ Len(calls) <= Len(tools)
            /\ \A k \in DOMAIN calls :
                 /\ calls[k].args = ToolInvocation(tools[k])
                 /\ k < Len(calls) => calls[k].status = 0
            /\ PastToolInstalls => Len(calls) = Len(tools)

\* C11 witness: a run that installed a structured entry with options and
\* then a bare name has returned
C11_Witness ==
    /\ FullRun /\ pc = "done" /\ exit = 0
    /\ "uv_tool" \in DOMAIN config
    /\ config["uv_tool"] =
         << [operand |-> "ruff", options |-> <<"--python", "3.12">>],
            [str |-> "ruff"] >>
    /\ \E i \in DOMAIN issued :
         /\ i < Len(issued)
         /\ Args(i) = <<"uv", "tool", "install", "--python", "3.12", "--",
                        "ruff">>
         /\ Args(i + 1) = <<"uv", "tool", "install", "--", "ruff">>

---------------------------------------------------------------------------
(* C12 *)

IsDockerRepo(a) == a = <<"sudo", "python3", "main.py", "prepare_docker">>
IsAptInstall(a) == IsPrefix(<<"sudo", "apt-get", "-y", "install">>, a)

\* the run is past the search for docker on the clean PATH
DockerChecked ==
    Len(issued) >= 2 \/ pc \in {"apt_update", "return"}

\* what the log shows of the Docker-conditional actions
C12_OneValueDecides ==
    FullRun =>
        /\ ~DockerChecked => ~need_docker
        /\ Cardinality({i \in DOMAIN issued : IsDockerRepo(Args(i))}) <= 1
        /\ DockerChecked =>
             (need_docker <=> \E i \in DOMAIN issued : IsDockerRepo(Args(i)))
        /\ \A i \in DOMAIN issued :
             /\ IsDockerRepo(Args(i)) => i = 2
             /\ IsAptInstall(Args(i)) =>
                   Args(i) = <<"sudo", "apt-get", "-y", "install", "--">>
                               \o config["apt"]
                               \o (IF need_docker THEN config["docker_apt"]
                                   ELSE <<>>)
             /\ IsUsermod(Args(i)) => need_docker
             /\ (need_docker /\ Phase(Args(i)) >= 6) =>
                   \E j \in 1..(i - 1) : IsUsermod(Args(j))

\* C12: in a full run docker is searched for once, on the clean PATH, in
\* the step that follows the dotfiles preparation, and the value found is
\* never recomputed; the repository preparation is issued if and only if
\* docker was not resolvable then, and the install's operand list and the
\* usermod command follow that same value, also when docker has become
\* resolvable since.
C12_SingleDockerCheck ==
    /\ []C12_OneValueDecides
    /\ [][FullRun =>
            IF pc = "docker_repo"
            THEN need_docker' = ~dockerOnPath
            ELSE need_docker' = need_docker]_vars

\* C12 witness: docker was missing at the check, has become resolvable
\* with the install, and the user has still been added to the group
C12_Witness ==
    /\ FullRun /\ need_docker /\ dockerOnPath
    /\ \E i, j \in DOMAIN issued :
         /\ i < j
         /\ Args(i) = <<"sudo", "apt-get", "-y", "install", "--",
                        "docker_apt1">>
         /\ IsUsermod(Args(j))

---------------------------------------------------------------------------
(* C13 *)

IsInstaller(a) == a = <<"python3", "main.py", "install_mise">>
IsSelfUpdate(a) == a = <<"mise", "self-update", "-y">>
IsUpgrade(a) == a = <<"mise", "upgrade", "--bump">>
IsMiseUse(a) == IsPrefix(<<"mise", "use">>, a)
ListOrEmpty(f) == IF f \in DOMAIN config THEN config[f] ELSE <<>>

\* the registrations the configuration asks for: core, then general, each
\* only when its list is non-empty
Registrations ==
    LET use(l) == IF l = <<>> THEN <<>>
                  ELSE << <<"mise", "use", "-g", "--">> \o l >>
    IN  use(ListOrEmpty("mise_core")) \o use(ListOrEmpty("mise"))

\* the log is past the toolchain-manager phase
PastManager ==
    \/ pc = "done" /\ exit = 0
    \/ \E i \in DOMAIN issued : Phase(Args(i)) >= 12

\* what the log shows of the two branches
C13_BranchesExclude ==
    FullRun =>
        LET inst == {i \in DOMAIN issued : IsInstaller(Args(i))}
            upd == {i \in DOMAIN issued : IsSelfUpdate(Args(i))}
            upg == {i \in DOMAIN issued : IsUpgrade(Args(i))}
            uses == SelectSeq(issued, LAMBDA c : IsMiseUse(c.args))
        IN  /\ Cardinality(inst) <= 1
            /\ Cardinality(upd) <= 1
            /\ Cardinality(upg) <= 1
            /\ inst # {} => need_mise /\ upd = {} /\ upg = {}
            /\ upd # {} => ~need_mise
            /\ \A i \in inst \cup upd :
                 /\ i > 1
                 /\ Phase(Args(i - 1)) \in {8, 9}
                 /\ issued[i - 1].status = 0
            /\ \A i \in upg :
                 i - 1 \in upd /\ issued[i - 1].status = 0
            /\ \A i \in {k \in DOMAIN issued : IsMiseUse(Args(k))} :
                 \E j \in 1..(i - 1) :
                     j \in inst \cup upg /\ issued[j].status = 0
            /\ IsPrefix(ArgsOf(uses), Registrations)
            /\ PastManager =>
                 /\ inst # {} \/ (upd # {} /\ upg # {})
                 /\ ArgsOf(uses) = Registrations

\* C13: in a full run the manager is searched for once, after the
\* store-package phase; when it is absent the installer sub-process is
\* issued and neither self-update nor upgrade is, when it is present
\* self-update and then upgrade are issued and the installer is not; the
\* registration of the core versions and then of the general versions, each
\* only for a non-empty list, follows the branch; a run that gets past the
\* phase has taken exactly one branch.
C13_OneManagerBranch ==
    /\ []C13_BranchesExclude
    /\ [][FullRun =>
            IF pc = "mise"
            THEN need_mise' = ~miseOnPath
            ELSE need_mise' = need_mise]_vars

\* C13 witness: the installer branch was taken and both registrations
\* have followed it
C13_Witness ==
    /\ FullRun /\ need_mise
    /\ \E i, j, k \in DOMAIN issued :
         /\ i < j /\ j < k
         /\ IsInstaller(Args(i))
         /\ Args(j) = <<"mise", "use", "-g", "--", "mise_core1">>
         /\ Args(k) = <<"mise", "use", "-g", "--", "mise1">>

---------------------------------------------------------------------------
(* C14 *)

SingleTasks == {"prepare_dotfiles", "prepare_docker", "install_mise"}

\* nothing of any task has happened
NoStepRun ==
    /\ task = ""
    /\ config = NoConfig /\ env = NoEnv
    /\ issued = <<>> /\ requests = <<>>
    /\ installed = {} /\ ~tmpdir

\* C14: with no argument the selector is the full run; a process started
\* with prepare_dotfiles, prepare_docker or install_mise runs that task's
\* step only, loads no configuration and issues no command; a positional
\* selector outside the four ends the process with a non-zero exit and no
\* step run.
C14_Dispatcher ==
    /\ (argv = <<>> /\ pc # "parse_args") => task = "main"
    /\ (Len(argv) = 1 /\ argv[1] \in SingleTasks /\ pc # "parse_args") =>
         /\ task = argv[1]
         /\ config = NoConfig /\ env = NoEnv
         /\ issued = <<>>
         /\ task = "prepare_dotfiles" =>
               /\ pc \in {"prepare_dotfiles", "done"}
               /\ requests = <<>> /\ installed = {} /\ ~tmpdir
         /\ task = "prepare_docker" =>
               /\ pc \in {"prepare_docker", "done"}
               /\ installed = {} /\ ~tmpdir
               /\ \A i \in DOMAIN requests :
                    requests[i] = "https://download.docker.com/linux/${ID}/gpg"
         /\ task = "install_mise" =>
               /\ pc \in {"install_mise", "platform", "tmpdir", "download",
                           "extract", "copy_bin", "copy_man", "done"}
               /\ \A i \in DOMAIN requests :
                    requests[i] # "https://download.docker.com/linux/${ID}/gpg"
    /\ (Len(argv) = 1 /\ argv[1] \notin Tasks /\ argv[1] # "-h") =>
         /\ NoStepRun
         /\ pc \in {"parse_args", "done"}
         /\ pc = "done" => exit # 0

\* C14 witness: a process started as install_mise has installed both files
\* and ended, with no configuration loaded and no command issued
C14_Witness ==
    /\ argv = <<"install_mise">>
    /\ pc = "done" /\ exit = 0
    /\ installed = {"bin", "man"}
    /\ config = NoConfig /\ issued = <<>>

---------------------------------------------------------------------------
(* C15 *)

\* a command that runs this script again
IsDispatcher(a) == \E k \in DOMAIN a : a[k] = "main.py"
Escalated(a) == \E k \in DOMAIN a : a[k] = "sudo"

\* C15: of the sub-processes of this script a full run spawns, the Docker
\* repository preparation is the only one prefixed with sudo: it is always
\* escalated, and the dotfiles preparation and the installer are spawned
\* as the interpreter, the script and the selector, with no escalation.
C15_SudoOnlyForDockerRepo ==
    FullRun =>
        \A i \in DOMAIN issued :
            IsDispatcher(Args(i)) =>
                LET a == Args(i)
                    selector == a[Len(a)]
                IN  /\ selector \in {"prepare_dotfiles", "prepare_docker",
                                     "install_mise"}
                    /\ Escalated(a) <=> selector = "prepare_docker"
                    /\ selector = "prepare_docker" =>
                         a = <<"sudo", "python3", "main.py", selector>>
                    /\ selector # "prepare_docker" =>
                         a = <<"python3", "main.py", selector>>

\* C15 witness: a run has spawned all three sub-processes
C15_Witness ==
    /\ FullRun
    /\ \E i, j, k \in DOMAIN issued :
         /\ Args(i) = <<"python3", "main.py", "prepare_dotfiles">>
         /\ Args(j) = <<"sudo", "python3", "main.py", "prepare_docker">>
         /\ Args(k) = <<"python3", "main.py", "install_mise">>

---------------------------------------------------------------------------
(* C16 *)

\* C16: the temporary directory of the installer exists only while the
\* process is inside the with block (downloading, extracting, copying):
\* when the installer has ended, with success or after a failed download,
\* extraction or copy, the directory is gone.
C16_TmpdirRemoved ==
    Installer =>
        /\ pc = "done" => ~tmpdir
        /\ tmpdir => pc \in {"download", "extract", "copy_bin", "copy_man"}

\* C16 witness: the installer has ended in failure after the archive was
\* downloaded and extracted and the binary copied
C16_Witness ==
    /\ Installer
    /\ pc = "done" /\ exit = 1
    /\ Len(requests) = 2
    /\ installed = {"bin"}
    /\ ~tmpdir

---------------------------------------------------------------------------
(* C17 *)

\* the environment every command is to run in
C17_Environment ==
    [PATH |-> <<"~/.local/share/mise/shims", "~/.local/bin", "os.defpath">>,
     HOME |-> "~"]

\* every command of the log was issued with that environment
C17_EveryCommandClean ==
    FullRun =>
        \A i \in DOMAIN issued :
            /\ DOMAIN issued[i].env = {"PATH", "HOME"}
            /\ issued[i].env = C17_Environment
            /\ issued[i].env = env

\* C17: every command of a full run, the privileged ones and the
\* sub-processes of this script included, is issued with one environment,
\* built once before the first command, that holds exactly PATH (the shim
\* directory, the local-bin directory, the system default path, in that
\* order) and HOME; the environment is assigned in that one step and in no
\* other.
C17_OneCleanEnvironment ==
    /\ []C17_EveryCommandClean
    /\ [][IF pc = "prepare_env"
          THEN env' = C17_Environment /\ issued = <<>>
          ELSE env' = env]_vars

\* C17 witness: a sub-process of this script, a privileged command and an
\* unprivileged command have been issued
C17_Witness ==
    /\ FullRun
    /\ \E i, j, k \in DOMAIN issued :
         /\ Args(i) = <<"python3", "main.py", "prepare_dotfiles">>
         /\ Args(j) = <<"sudo", "apt-get", "update">>
         /\ Args(k) = <<"uv", "python", "upgrade">>

---------------------------------------------------------------------------
(* C18 *)

\* the argument vector of the process a command of this script starts:
\* what follows the script's name
ChildArgv(a) ==
    LET k == CHOOSE n \in DOMAIN a : a[n] = "main.py"
    IN  SubSeq(a, k + 1, Len(a))

\* C18: every sub-process of this script a process spawns is started with
\* exactly one argument, one of prepare_dotfiles, prepare_docker and
\* install_mise, and a process started that way issues no command at all:
\* the processes of this script nest at most one deep and no full run
\* starts another.
C18_NoRecursion ==
    /\ \A i \in DOMAIN issued :
         IsDispatcher(Args(i)) =>
             ChildArgv(Args(i)) \in {<<t>> : t \in SingleTasks}
    /\ argv \in {<<t>> : t \in SingleTasks} =>
         /\ issued = <<>>
         /\ task \in {"", argv[1]}
    /\ issued # <<>> => FullRun

\* C18 witness: a full run that spawned the dotfiles and the installer
\* sub-processes has returned
C18_Witness ==
    /\ FullRun /\ pc = "done" /\ exit = 0
    /\ \E i, k \in DOMAIN issued :
         /\ IsDispatcher(Args(i)) /\ IsDispatcher(Args(k))
         /\ ChildArgv(Args(i)) = <<"prepare_dotfiles">>
         /\ ChildArgv(Args(k)) = <<"install_mise">>

---------------------------------------------------------------------------
(* C19 *)

\* C19: in a full run every mise use is issued either with the manager
\* found on the clean PATH at the presence check, or after the installer
\* sub-process of this run has exited zero; an installer that exits
\* non-zero is the last command of the run, and what it leaves behind is
\* not searched for again.
C19_UseOnlyWithManager ==
    FullRun =>
        /\ \A i \in DOMAIN issued :
             IsMiseUse(Args(i)) =>
                 \/ ~need_mise /\ miseOnPath
                 \/ /\ need_mise /\ miseOnPath
                    /\ \E j \in 1..(i - 1) :
                         IsInstaller(Args(j)) /\ issued[j].status = 0
        /\ \A j \in DOMAIN issued :
             (IsInstaller(Args(j)) /\ issued[j].status # 0) =>
                 j = Len(issued) /\ pc = "done" /\ exit # 0

\* C19 witness: the manager was absent, the installer exited zero and a
\* registration has been issued
C19_Witness ==
    /\ FullRun /\ need_mise
    /\ \E j, i \in DOMAIN issued :
         /\ j < i
         /\ IsInstaller(Args(j)) /\ issued[j].status = 0
         /\ IsMiseUse(Args(i))

---------------------------------------------------------------------------
(* C20 *)

\* what a state with a destination file written shows of the earlier steps
C20_WrittenAfterAll ==
    Installer =>
        /\ "man" \in installed => "bin" \in installed
        /\ installed # {} =>
             /\ tag # ""
             /\ uname \in [system : {"Linux"}, machine : {"x86_64", "aarch64"}]
             /\ name \in {"mise-" \o tag \o "-linux-x64.tar.gz",
                          "mise-" \o tag \o "-linux-arm64.tar.gz"}
             /\ requests =
                  <<"https://github.com/jdx/mise/releases/latest",
                    "https://github.com/jdx/mise/releases/download/"
                        \o tag \o "/" \o name>>
             /\ pc \in {"copy_man", "done"}

\* the steps of the installer follow one another: each begins only when
\* the one before it has completed without raising
C20_StepsInSequence ==
    Installer =>
        /\ (pc' = "platform" /\ pc # "platform") =>
               pc = "install_mise" /\ tag' # ""
        /\ (pc' = "tmpdir" /\ pc # "tmpdir") => pc = "platform"
        /\ (pc' = "download" /\ pc # "download") => pc = "tmpdir"
        /\ (pc' = "extract" /\ pc # "extract") => pc = "download"
        /\ (pc' = "copy_bin" /\ pc # "copy_bin") => pc = "extract"
        /\ (pc' = "copy_man" /\ pc # "copy_man") =>
               pc = "copy_bin" /\ "bin" \in installed'
        /\ installed' # installed =>
               /\ pc \in {"copy_bin", "copy_man"}
               /\ pc = "copy_bin" => installed' = installed \cup {"bin"}
               /\ pc = "copy_man" => installed' = installed \cup {"man"}

\* C20: the installer writes a destination file only in its two copy
\* steps, which begin only after tag resolution, platform mapping, download
\* and extraction have each completed; the binary is copied first, so the
\* manual page is never installed without the binary, while a failed copy
\* of the manual page leaves the binary installed.
C20_NoFileBeforeExtraction ==
    /\ []C20_WrittenAfterAll
    /\ [][C20_StepsInSequence]_vars

\* C20 witness: the copy of the manual page has failed and the installer
\* has ended with the binary installed alone
C20_Witness ==
    /\ Installer
    /\ pc = "done" /\ exit # 0
    /\ "bin" \in installed /\ "man" \notin installed
    /\ tag = "v1.2.3"
    /\ name = "mise-v1.2.3-linux-arm64.tar.gz"

====
